---- MODULE Spec2Model ----
(***************************************************************************)
(* A model of advanced-vector/vector.h: RawMemory<T> (an owning handle to  *)
(* a block of uninitialized slots) and Vector<T> (the container on top).   *)
(*                                                                         *)
(* The heap is a finite set of blocks.  A slot of a block either holds no  *)
(* object (RAW) or a live object with a value.  Element operations of T    *)
(* (copy construction, copy assignment, value construction and, for a type *)
(* whose move constructor may throw, the moves) can throw; every public    *)
(* operation takes as input which of its element operations throws.        *)
(***************************************************************************)
EXTENDS Integers, Sequences, FiniteSets, TLC

\* ----------------------------------------------------------------- bounds
\* Largest block a program with one Vector object allocates (an allocation of
\* more slots is not tried).
MaxCap == 4
\* Largest block a program with two Vector objects allocates.
PairCap == 2

\* ------------------------------------------------------- values and slots
\* T{}: the value uninitialized_value_construct_n gives an element.
DefaultValue == 0
\* A slot of raw memory that holds no live object.
RAW == -1
\* The value of an object that was moved from (valid, unspecified).
MOVED == -2
\* What reading a slot that holds no live object yields (undefined behaviour:
\* stands for any value).
GARBAGE == -3
\* RawMemory::buffer_ of an empty storage.
NullPtr == 0

Values == {DefaultValue, DefaultValue + 1}
Vecs == {1, 2}
\* Block addresses: a Vector holds at most one block, and an operation at most
\* one more (new_data, or the data_ of the temporary rhs_copy).
Blocks == 1..(Cardinality(Vecs) + 1)
\* Which element operation of a call throws: 0 none, k the k-th of the at most
\* n element operations of the call that can throw.
FailPoints(n) == 0..n
\* More element operations than one call performs.
Unlimited == 2 * MaxCap + 4
Budget(f) == IF f = 0 THEN Unlimited ELSE f - 1
Tainted == <<RAW>>

VARIABLES
    heap,          \* block address -> [alloc, mem]: operator new / operator delete
    vec,           \* each Vector object: [alive, data_ : [buffer_, capacity_], size_]
    nothrowMove,   \* is_nothrow_move_constructible_v<T> || !is_copy_constructible_v<T>
    objects,       \* how many Vector objects the program has (Vector 1, or Vectors 1 and 2)
    appended,      \* per Vector: the values appended since default construction, or Tainted
    last           \* the public operation that ran last and how it ended

vars == <<heap, vec, nothrowMove, objects, appended, last>>

\* ------------------------------------------------------------------- heap
FreeBlock == [alloc |-> FALSE, mem |-> <<>>]
EmptyRaw == [buffer_ |-> NullPtr, capacity_ |-> 0]
NoVector == [alive |-> FALSE, data_ |-> EmptyRaw, size_ |-> 0]

\* The largest block this program allocates, and the Vector objects it has.
CapLimit == IF objects = 1 THEN MaxCap ELSE PairCap
Objs == 1..objects

CanAllocate(h, n) == n = 0 \/ (n <= CapLimit /\ \E b \in Blocks : ~h[b].alloc)

\* RawMemory::Allocate: the address operator new returns (nullptr for n = 0).
Allocate(h, n) ==
    IF n = 0 THEN NullPtr
    ELSE CHOOSE b \in Blocks : ~h[b].alloc /\ \A c \in Blocks : c < b => h[c].alloc

\* The heap after RawMemory::Allocate(n).
AllocateHeap(h, n) ==
    IF n = 0 THEN h
    ELSE [h EXCEPT ![Allocate(h, n)] = [alloc |-> TRUE, mem |-> [i \in 1..n |-> RAW]]]

\* RawMemory(size_t capacity)
NewRawMemory(h, n) == [buffer_ |-> Allocate(h, n), capacity_ |-> n]

\* RawMemory::Deallocate: operator delete(buf), a no-op on nullptr.
Deallocate(h, b) == IF b = NullPtr THEN h ELSE [h EXCEPT ![b] = FreeBlock]

\* The heap once the only pointer to block b is overwritten: the block stays
\* allocated, out of reach of every object; the model keeps reachable blocks
\* only and records the loss with the call (last.leak).
Orphan(h, b) == IF b = NullPtr THEN h ELSE [h EXCEPT ![b] = FreeBlock]

InBlock(h, b, i) == b # NullPtr /\ i >= 0 /\ i < Len(h[b].mem)
At(h, b, i) == IF InBlock(h, b, i) THEN h[b].mem[i + 1] ELSE RAW
Read(h, b, i) == IF At(h, b, i) = RAW THEN GARBAGE ELSE At(h, b, i)
Put(h, b, i, x) == IF InBlock(h, b, i) THEN [h EXCEPT ![b].mem[i + 1] = x] ELSE h

\* The live objects of a block.
LiveCount(h, b) ==
    IF b = NullPtr THEN 0 ELSE Cardinality({i \in DOMAIN h[b].mem : h[b].mem[i] # RAW})

\* ------------------------------------------------- element operations of T
\* new (p) T(x)
ConstructAt(h, b, i, x) == Put(h, b, i, x)
\* p->~T()
DestroyAt(h, b, i) == Put(h, b, i, RAW)
\* *p = x : assigns to the object at p (there is none in a raw slot).
AssignAt(h, b, i, x) == IF At(h, b, i) = RAW THEN h ELSE Put(h, b, i, x)
\* The source of a move afterwards: a type whose move may throw is moved by copy.
AfterMove(h, b, i) ==
    IF nothrowMove /\ At(h, b, i) # RAW THEN Put(h, b, i, MOVED) ELSE h
\* How many throwing element operations n moves are.
MoveCost(n) == IF nothrowMove THEN 0 ELSE n

\* std::destroy_n(b + i, n)
DestroyN(h, b, i, n) ==
    IF b = NullPtr THEN h
    ELSE [h EXCEPT ![b].mem =
            [s \in DOMAIN @ |-> IF s - 1 >= i /\ s - 1 < i + n THEN RAW ELSE @[s]]]

\* The first k constructions of std::uninitialized_copy_n(fb + fi, n, tb + ti).
CopySteps(h, fb, fi, tb, ti, k) ==
    IF tb = NullPtr THEN h
    ELSE [h EXCEPT ![tb].mem =
            [s \in DOMAIN @ |->
                IF s - 1 >= ti /\ s - 1 < ti + k THEN Read(h, fb, fi + (s - 1 - ti)) ELSE @[s]]]

\* std::uninitialized_copy_n with budget b: the copy after the b-th throws, and
\* the copies already made are destroyed before the exception leaves.
UninitializedCopyN(h, fb, fi, n, tb, ti, b) ==
    IF b < n
    THEN [heap |-> DestroyN(CopySteps(h, fb, fi, tb, ti, b), tb, ti, b), threw |-> TRUE]
    ELSE [heap |-> CopySteps(h, fb, fi, tb, ti, n), threw |-> FALSE]

\* std::uninitialized_move_n of a type whose move cannot throw.
UninitializedMoveN(h, fb, fi, n, tb, ti) ==
    LET h1 == CopySteps(h, fb, fi, tb, ti, n)
    IN IF fb = NullPtr THEN h1
       ELSE [h1 EXCEPT ![fb].mem =
               [s \in DOMAIN @ |->
                   IF s - 1 >= fi /\ s - 1 < fi + n /\ @[s] # RAW THEN MOVED ELSE @[s]]]

\* std::uninitialized_value_construct_n(b + i, n) with budget bd.
UninitializedValueConstructN(h, b, i, n, bd) ==
    IF bd < n
    THEN [heap |-> h, threw |-> TRUE]
    ELSE [heap |-> IF b = NullPtr THEN h
                   ELSE [h EXCEPT ![b].mem =
                           [s \in DOMAIN @ |->
                               IF s - 1 >= i /\ s - 1 < i + n THEN DefaultValue ELSE @[s]]],
          threw |-> FALSE]

\* *(b + d) = std::move(*(b + s))
MoveAssignStep(h, b, s, d) == AfterMove(AssignAt(h, b, d, Read(h, b, s)), b, s)

\* The first k steps of std::move(b + first, b + lst, b + d):
\* *d++ = std::move(*first++).
RECURSIVE MoveForward(_, _, _, _, _, _)
MoveForward(h, b, first, lst, d, k) ==
    IF k = 0 \/ first >= lst THEN h
    ELSE MoveForward(MoveAssignStep(h, b, first, d), b, first + 1, lst, d + 1, k - 1)

\* A mutant of MoveBackward: the range shifted right front to back, as
\* std::move would (the bug of using the forward algorithm on an overlap).
MoveBackwardFrontFirst(h, b, first, lst, dlast, k) ==
    MoveForward(h, b, first, lst, dlast - (lst - first), k)

\* The first k steps of std::move_backward(b + first, b + lst, b + dlast):
\* *(--dlast) = std::move(*(--lst)).
RECURSIVE MoveBackward(_, _, _, _, _, _)
MoveBackward(h, b, first, lst, dlast, k) ==
    IF k = 0 \/ lst <= first THEN h
    ELSE MoveBackward(MoveAssignStep(h, b, lst - 1, dlast - 1), b, first, lst - 1, dlast - 1, k - 1)

\* A mutant of AssignSteps: the loop over the common prefix left out.
AssignStepsSkipped(h, fb, tb, k) == h

\* The first k steps of the loop  for (; i != n; ++i) data_[i] = rhs.data_[i];
AssignSteps(h, fb, tb, k) ==
    IF tb = NullPtr THEN h
    ELSE [h EXCEPT ![tb].mem =
            [s \in DOMAIN @ |-> IF s - 1 < k /\ @[s] # RAW THEN Read(h, fb, s - 1) ELSE @[s]]]

\* ------------------------------------------------------------- RawMemory
\* RawMemory::Swap
RawSwap(a, b) == [a |-> b, b |-> a]

\* A mutant of RawMoveAssign: the members copied, the right operand not reset.
RawMoveAssignKeepsSource(lhs, rhs, same) ==
    [lhs |-> [buffer_ |-> rhs.buffer_, capacity_ |-> rhs.capacity_], rhs |-> rhs,
     dropped |-> IF same THEN NullPtr ELSE lhs.buffer_]

\* RawMemory::operator=(RawMemory&&): the operands afterwards.  The block the
\* left operand held is not handed to Deallocate.
RawMoveAssign(lhs, rhs, same) ==
    IF same THEN [lhs |-> lhs, rhs |-> rhs, dropped |-> NullPtr]
    ELSE [lhs |-> [buffer_ |-> rhs.buffer_, capacity_ |-> rhs.capacity_], rhs |-> EmptyRaw,
          dropped |-> lhs.buffer_]

\* RawMemory(RawMemory&& other): the default-initialised members swapped with other's.
RawMoveCtor(other) == RawSwap(EmptyRaw, other)

\* ---------------------------------------------------------------- Vector
\* What an operation hands back: the heap and the Vector afterwards, whether an
\* exception left it (threw), whether an element operation threw inside it
\* (failed), the index of the returned iterator (-1: none), the existing
\* elements it relocated, and the live objects in blocks it released.
Res(h, v, threw, failed, ret, reloc, lost) ==
    [heap |-> h, v |-> v, threw |-> threw, failed |-> failed, ret |-> ret,
     reloc |-> reloc, lost |-> lost]

Size(v) == v.size_
Capacity(v) == v.data_.capacity_
\* The values of the slots [0, size) of a Vector, as operator[] reads them.
Elems(h, v) == [i \in 1..v.size_ |-> Read(h, v.data_.buffer_, i - 1)]

\* A mutant of CopyOrMove: destroy_n(from, count) runs although the copy threw.
CopyOrMoveDestroysOnThrow(h, fb, fi, tb, ti, n, b) ==
    IF nothrowMove
    THEN [heap |-> DestroyN(UninitializedMoveN(h, fb, fi, n, tb, ti), fb, fi, n),
          threw |-> FALSE]
    ELSE LET c == UninitializedCopyN(h, fb, fi, n, tb, ti, b)
         IN [heap |-> DestroyN(c.heap, fb, fi, n), threw |-> c.threw]

\* Vector::CopyOrMove(from, to, count) with budget b.
CopyOrMove(h, fb, fi, tb, ti, n, b) ==
    IF nothrowMove
    THEN [heap |-> DestroyN(UninitializedMoveN(h, fb, fi, n, tb, ti), fb, fi, n),
          threw |-> FALSE]
    ELSE LET c == UninitializedCopyN(h, fb, fi, n, tb, ti, b)
         IN IF c.threw THEN c
            ELSE [heap |-> DestroyN(c.heap, fb, fi, n), threw |-> FALSE]

\* A mutant of GrownCapacity: growth by one slot instead of doubling.
GrownCapacityByOne(v) == v.size_ + 1

\* The capacity EmplaceBack and Emplace grow to.
GrownCapacity(v) == IF v.size_ = 0 THEN 1 ELSE v.size_ * 2

\* A mutant of Reserve: the storage grown to the doubled capacity when the
\* request is smaller than that.
ReserveAtLeastDouble(h, v, n, b) ==
    IF n <= Capacity(v) THEN Res(h, v, FALSE, FALSE, -1, 0, 0)
    ELSE LET m == IF n < 2 * Capacity(v) /\ 2 * Capacity(v) <= CapLimit
                  THEN 2 * Capacity(v) ELSE n
             new_data == NewRawMemory(h, m)
             h1 == AllocateHeap(h, m)
             c == CopyOrMove(h1, v.data_.buffer_, 0, new_data.buffer_, 0, v.size_, b)
         IN IF c.threw
            THEN Res(Deallocate(c.heap, new_data.buffer_), v, TRUE, TRUE, -1, 0,
                     LiveCount(c.heap, new_data.buffer_))
            ELSE LET sw == RawSwap(v.data_, new_data)
                 IN Res(Deallocate(c.heap, sw.b.buffer_), [v EXCEPT !.data_ = sw.a],
                        FALSE, FALSE, -1, v.size_, LiveCount(c.heap, sw.b.buffer_))

\* Vector::Reserve(new_capacity) with budget b.
Reserve(h, v, n, b) ==
    IF n <= Capacity(v) THEN Res(h, v, FALSE, FALSE, -1, 0, 0)
    ELSE LET new_data == NewRawMemory(h, n)
             h1 == AllocateHeap(h, n)
             c == CopyOrMove(h1, v.data_.buffer_, 0, new_data.buffer_, 0, v.size_, b)
         IN IF c.threw
            THEN Res(Deallocate(c.heap, new_data.buffer_), v, TRUE, TRUE, -1, 0,
                     LiveCount(c.heap, new_data.buffer_))
            ELSE LET sw == RawSwap(v.data_, new_data)
                 IN Res(Deallocate(c.heap, sw.b.buffer_), [v EXCEPT !.data_ = sw.a],
                        FALSE, FALSE, -1, v.size_, LiveCount(c.heap, sw.b.buffer_))

\* A mutant of Resize: the new tail is constructed without Reserve(new_size).
ResizeWithoutReserve(h, v, n, b) ==
    IF n = v.size_ THEN Res(h, v, FALSE, FALSE, -1, 0, 0)
    ELSE IF n < v.size_
    THEN Res(DestroyN(h, v.data_.buffer_, n, v.size_ - n), [v EXCEPT !.size_ = n],
             FALSE, FALSE, -1, 0, 0)
    ELSE LET c == UninitializedValueConstructN(h, v.data_.buffer_, v.size_, n - v.size_, b)
         IN IF c.threw THEN Res(c.heap, v, TRUE, TRUE, -1, 0, 0)
            ELSE Res(c.heap, [v EXCEPT !.size_ = n], FALSE, FALSE, -1, 0, 0)

\* Vector::Resize(new_size) with budget b.
Resize(h, v, n, b) ==
    IF n = v.size_ THEN Res(h, v, FALSE, FALSE, -1, 0, 0)
    ELSE IF n < v.size_
    THEN Res(DestroyN(h, v.data_.buffer_, n, v.size_ - n), [v EXCEPT !.size_ = n],
             FALSE, FALSE, -1, 0, 0)
    ELSE LET r == Reserve(h, v, n, b)
         IN IF r.threw THEN r
            ELSE LET c == UninitializedValueConstructN(r.heap, r.v.data_.buffer_, v.size_,
                                                       n - v.size_, b - MoveCost(r.reloc))
                 IN IF c.threw THEN Res(c.heap, r.v, TRUE, TRUE, -1, r.reloc, r.lost)
                    ELSE Res(c.heap, [r.v EXCEPT !.size_ = n], FALSE, FALSE, -1, r.reloc, r.lost)

\* Vector::PopBack
PopBack(h, v) ==
    IF v.size_ > 0
    THEN Res(DestroyN(h, v.data_.buffer_, v.size_ - 1, 1), [v EXCEPT !.size_ = @ - 1],
             FALSE, FALSE, -1, 0, 0)
    ELSE Res(h, v, FALSE, FALSE, -1, 0, 0)

\* The argument of PushBack and Insert, a const T&: a reference to an object
\* outside the Vector holding the value x, or to the element i of the Vector.
ByValue(x) == [own |-> FALSE, at |-> x]
ByRef(i) == [own |-> TRUE, at |-> i]
\* What a read through the reference yields when the heap is h.
ArgValue(h, v, x) == IF x.own THEN Read(h, v.data_.buffer_, x.at) ELSE x.at

\* Vector::EmplaceBack(args) with budget b; x is the argument T is constructed from.
EmplaceBack(h, v, x, b) ==
    IF v.size_ = Capacity(v)
    THEN LET new_data == NewRawMemory(h, GrownCapacity(v))
             h1 == AllocateHeap(h, GrownCapacity(v))
         IN IF b = 0
            THEN Res(Deallocate(h1, new_data.buffer_), v, TRUE, TRUE, -1, 0, 0)
            ELSE LET h2 == ConstructAt(h1, new_data.buffer_, v.size_, ArgValue(h1, v, x))
                     c == CopyOrMove(h2, v.data_.buffer_, 0, new_data.buffer_, 0, v.size_, b - 1)
                 IN IF c.threw
                    THEN Res(Deallocate(c.heap, new_data.buffer_), v, TRUE, TRUE, -1, 0,
                             LiveCount(c.heap, new_data.buffer_))
                    ELSE LET sw == RawSwap(v.data_, new_data)
                         IN Res(Deallocate(c.heap, sw.b.buffer_),
                                [v EXCEPT !.data_ = sw.a, !.size_ = @ + 1],
                                FALSE, FALSE, v.size_, v.size_,
                                LiveCount(c.heap, sw.b.buffer_))
    ELSE IF b = 0 THEN Res(h, v, TRUE, TRUE, -1, 0, 0)
         ELSE Res(ConstructAt(h, v.data_.buffer_, v.size_, ArgValue(h, v, x)),
                  [v EXCEPT !.size_ = @ + 1],
                  FALSE, FALSE, v.size_, 0, 0)

\* A mutant of EmplaceInPlace: no temporary, the element at index assigned from
\* the argument after the shift.
EmplaceInPlaceNoTemporary(h, v, index, x, b) ==
    LET buf == v.data_.buffer_
        last_el == v.size_ - 1
        shifts == last_el - index
        b1 == b - 1
        h1 == ConstructAt(h, buf, v.size_, Read(h, buf, last_el))
        h2 == AfterMove(h1, buf, last_el)
        b2 == b1 - MoveCost(1)
        done == IF MoveCost(shifts) <= b2 THEN shifts ELSE b2
        h3 == MoveBackward(h2, buf, index, last_el, v.size_, done)
        b3 == b2 - MoveCost(shifts)
    IN IF b = 0 THEN Res(h, v, TRUE, TRUE, -1, 0, 0)
       ELSE IF MoveCost(1) > b1 THEN Res(h, v, TRUE, TRUE, -1, 0, 0)
       ELSE IF MoveCost(shifts) > b2 THEN Res(h3, v, TRUE, TRUE, -1, 1 + done, 0)
       ELSE IF MoveCost(1) > b3 THEN Res(h3, v, TRUE, TRUE, -1, 1 + shifts, 0)
       ELSE Res(AssignAt(h3, buf, index, ArgValue(h3, v, x)), [v EXCEPT !.size_ = @ + 1],
                FALSE, FALSE, index, 1 + shifts, 0)

\* Emplace when size_ != Capacity(): the shift inside the block, with budget b.
EmplaceInPlace(h, v, index, x, b) ==
    LET buf == v.data_.buffer_
        last_el == v.size_ - 1
        shifts == last_el - index
        \* T tmp(args) is the first throwing operation, the move of the last
        \* element the next, then the shifts, then the move of tmp.
        tmp == ArgValue(h, v, x)
        b1 == b - 1
        h1 == ConstructAt(h, buf, v.size_, Read(h, buf, last_el))
        h2 == AfterMove(h1, buf, last_el)
        b2 == b1 - MoveCost(1)
        done == IF MoveCost(shifts) <= b2 THEN shifts ELSE b2
        h3 == MoveBackward(h2, buf, index, last_el, v.size_, done)
        b3 == b2 - MoveCost(shifts)
    IN IF b = 0 THEN Res(h, v, TRUE, TRUE, -1, 0, 0)
       ELSE IF MoveCost(1) > b1 THEN Res(h, v, TRUE, TRUE, -1, 0, 0)
       ELSE IF MoveCost(shifts) > b2 THEN Res(h3, v, TRUE, TRUE, -1, 1 + done, 0)
       ELSE IF MoveCost(1) > b3 THEN Res(h3, v, TRUE, TRUE, -1, 1 + shifts, 0)
       ELSE Res(AssignAt(h3, buf, index, tmp), [v EXCEPT !.size_ = @ + 1],
                FALSE, FALSE, index, 1 + shifts, 0)

\* Emplace when size_ == Capacity(): the move into a new block, with budget b.
EmplaceRealloc(h, v, index, x, b) ==
    LET new_data == NewRawMemory(h, GrownCapacity(v))
        nb == new_data.buffer_
        h1 == AllocateHeap(h, GrownCapacity(v))
        h2 == ConstructAt(h1, nb, index, ArgValue(h1, v, x))
        before == CopyOrMove(h2, v.data_.buffer_, 0, nb, 0, index, b - 1)
        after == CopyOrMove(before.heap, v.data_.buffer_, index, nb, index + 1,
                            v.size_ - index, b - 1 - MoveCost(index))
        \* catch (...) of the second try block: no rethrow.
        h3 == IF after.threw THEN DestroyN(after.heap, nb, 0, index + 1) ELSE after.heap
        sw == RawSwap(v.data_, new_data)
    IN IF b = 0 THEN Res(Deallocate(h1, nb), v, TRUE, TRUE, -1, 0, 0)
       ELSE IF before.threw
       THEN LET hc == DestroyAt(before.heap, nb, index)
            IN Res(Deallocate(hc, nb), v, TRUE, TRUE, -1, 0, LiveCount(hc, nb))
       ELSE Res(Deallocate(h3, sw.b.buffer_), [v EXCEPT !.data_ = sw.a, !.size_ = @ + 1],
                FALSE, after.threw, index,
                IF after.threw THEN index ELSE v.size_,
                LiveCount(h3, sw.b.buffer_))

\* A mutant of Emplace: every Insert before end() moves to a new block.
EmplaceAlwaysRealloc(h, v, index, x, b) ==
    IF index = v.size_ THEN EmplaceBack(h, v, x, b)
    ELSE EmplaceRealloc(h, v, index, x, b)

\* Vector::Emplace(pos, args) with pos = begin() + index.
Emplace(h, v, index, x, b) ==
    IF index = v.size_ THEN EmplaceBack(h, v, x, b)
    ELSE IF v.size_ # Capacity(v) THEN EmplaceInPlace(h, v, index, x, b)
    ELSE EmplaceRealloc(h, v, index, x, b)

\* A mutant of Erase: the last element dropped, nothing shifted left.
EraseDropsLast(h, v, index, b) ==
    LET p == PopBack(h, v)
    IN [p EXCEPT !.ret = IF index = v.size_ THEN p.v.size_ ELSE index]

\* Vector::Erase(pos) with pos = begin() + index.
Erase(h, v, index, b) ==
    IF index = v.size_
    THEN LET p == PopBack(h, v) IN [p EXCEPT !.ret = p.v.size_]
    ELSE LET n == v.size_ - index - 1
             done == IF MoveCost(n) <= b THEN n ELSE b
             h1 == MoveForward(h, v.data_.buffer_, index + 1, v.size_, index, done)
         IN IF MoveCost(n) > b THEN Res(h1, v, TRUE, TRUE, -1, done, 0)
            ELSE LET p == PopBack(h1, v) IN [p EXCEPT !.ret = index, !.reloc = n]

\* Vector() = default
DefaultVector == [alive |-> TRUE, data_ |-> EmptyRaw, size_ |-> 0]

\* explicit Vector(size_t size) with budget b; on a throw no object comes to be.
SizedCtor(h, n, b) ==
    LET data == NewRawMemory(h, n)
        h1 == AllocateHeap(h, n)
        c == UninitializedValueConstructN(h1, data.buffer_, 0, n, b)
    IN IF c.threw
       THEN Res(Deallocate(c.heap, data.buffer_), NoVector, TRUE, TRUE, -1, 0,
                LiveCount(c.heap, data.buffer_))
       ELSE Res(c.heap, [alive |-> TRUE, data_ |-> data, size_ |-> n],
                FALSE, FALSE, -1, 0, 0)

\* A mutant of CopyCtor: a shallow copy, the new Vector holding other's block.
CopyCtorShallow(h, other, b) ==
    Res(h, [alive |-> TRUE, data_ |-> other.data_, size_ |-> other.size_],
        FALSE, FALSE, -1, 0, 0)

\* Vector(const Vector& other) with budget b.
CopyCtor(h, other, b) ==
    LET data == NewRawMemory(h, other.size_)
        h1 == AllocateHeap(h, other.size_)
        c == UninitializedCopyN(h1, other.data_.buffer_, 0, other.size_, data.buffer_, 0, b)
    IN IF c.threw
       THEN Res(Deallocate(c.heap, data.buffer_), NoVector, TRUE, TRUE, -1, 0,
                LiveCount(c.heap, data.buffer_))
       ELSE Res(c.heap, [alive |-> TRUE, data_ |-> data, size_ |-> other.size_],
                FALSE, FALSE, -1, 0, 0)

\* Vector(Vector&& other): the new Vector and other afterwards.
MoveCtor(other) ==
    LET mv == RawMoveCtor(other.data_)
    IN [v |-> [alive |-> TRUE, data_ |-> mv.a, size_ |-> other.size_],
        other |-> [other EXCEPT !.data_ = mv.b, !.size_ = 0]]

\* ~Vector(): destroy_n, then ~RawMemory.
Dtor(h, v) == Deallocate(DestroyN(h, v.data_.buffer_, 0, v.size_), v.data_.buffer_)

\* Vector::Swap: the operands afterwards.
Swap(v, w, same) ==
    IF same THEN [v |-> v, w |-> w]
    ELSE LET sw == RawSwap(v.data_, w.data_)
         IN [v |-> [v EXCEPT !.data_ = sw.a, !.size_ = w.size_],
             w |-> [w EXCEPT !.data_ = sw.b, !.size_ = v.size_]]

\* A mutant of CopyAssignRebuild: the destination is emptied first and the copy
\* made afterwards (no temporary rhs_copy).
CopyAssignRebuildClearsFirst(h, v, rhs, b) ==
    LET h0 == Dtor(h, v)
        cc == CopyCtor(h0, rhs, b)
    IN IF cc.threw THEN [cc EXCEPT !.v = [v EXCEPT !.data_ = EmptyRaw, !.size_ = 0]]
       ELSE Res(cc.heap, cc.v, FALSE, FALSE, -1, 0, 0)

\* operator=(const Vector& rhs) when rhs.size_ > data_.Capacity().
CopyAssignRebuild(h, v, rhs, b) ==
    LET cc == CopyCtor(h, rhs, b)
    IN IF cc.threw THEN [cc EXCEPT !.v = v]
       ELSE LET sw == Swap(v, cc.v, FALSE)
            IN Res(Dtor(cc.heap, sw.w), [sw.v EXCEPT !.size_ = rhs.size_],
                   FALSE, FALSE, -1, 0, 0)

\* operator=(const Vector& rhs) when rhs.size_ <= data_.Capacity().
CopyAssignInPlace(h, v, rhs, b) ==
    LET fb == rhs.data_.buffer_
        tb == v.data_.buffer_
    IN IF rhs.size_ < v.size_
       THEN IF b < rhs.size_
            THEN Res(AssignSteps(h, fb, tb, b), v, TRUE, TRUE, -1, 0, 0)
            ELSE Res(DestroyN(AssignSteps(h, fb, tb, rhs.size_), tb, rhs.size_,
                              v.size_ - rhs.size_),
                     [v EXCEPT !.size_ = rhs.size_], FALSE, FALSE, -1, 0, 0)
       ELSE IF b < v.size_
            THEN Res(AssignSteps(h, fb, tb, b), v, TRUE, TRUE, -1, 0, 0)
            ELSE LET c == UninitializedCopyN(AssignSteps(h, fb, tb, v.size_), fb, v.size_,
                                             rhs.size_ - v.size_, tb, v.size_, b - v.size_)
                 IN IF c.threw THEN Res(c.heap, v, TRUE, TRUE, -1, 0, 0)
                    ELSE Res(c.heap, [v EXCEPT !.size_ = rhs.size_], FALSE, FALSE, -1, 0, 0)

\* A mutant of CopyAssign: copy and swap whatever the capacity.
CopyAssignAlwaysRebuild(h, v, rhs, same, b) ==
    IF same THEN Res(h, [v EXCEPT !.size_ = rhs.size_], FALSE, FALSE, -1, 0, 0)
    ELSE CopyAssignRebuild(h, v, rhs, b)

\* Vector::operator=(const Vector& rhs) with budget b.
CopyAssign(h, v, rhs, same, b) ==
    IF same THEN Res(h, [v EXCEPT !.size_ = rhs.size_], FALSE, FALSE, -1, 0, 0)
    ELSE IF rhs.size_ > Capacity(v) THEN CopyAssignRebuild(h, v, rhs, b)
    ELSE CopyAssignInPlace(h, v, rhs, b)

\* Vector::operator=(Vector&& rhs): the operands afterwards.
MoveAssign(v, rhs, same) ==
    LET mv == RawMoveAssign(v.data_, rhs.data_, same)
    IN IF same THEN [v |-> v, rhs |-> rhs, dropped |-> mv.dropped]
       ELSE [v |-> [v EXCEPT !.data_ = mv.lhs, !.size_ = rhs.size_],
             rhs |-> [rhs EXCEPT !.data_ = mv.rhs, !.size_ = 0],
             dropped |-> mv.dropped]

\* ------------------------------------------------------- the state machine
\* The record of a public call: the operation, the Vector it was called on,
\* its size, index or other-Vector argument (arg) and its value argument (val),
\* -1 for none; whether an exception left it, whether an element operation
\* threw inside it, the index of the iterator it returned, how many existing
\* elements it relocated (moved or copied to another slot), how many live
\* objects were in the blocks it released, and whether it lost a block (left it
\* allocated with no owner).
Call(op, c, arg, val, r, leak) ==
    [op |-> op, vec |-> c, arg |-> arg, val |-> val, threw |-> r.threw,
     failed |-> r.failed, ret |-> r.ret, reloc |-> r.reloc, lost |-> r.lost,
     leak |-> leak, own |-> -1]
\* The record of a PushBack or Insert whose argument is the element i of the
\* Vector itself (own), val being the value that element had before the call.
CallOwn(op, c, arg, i, r) ==
    [Call(op, c, arg, Read(heap, vec[c].data_.buffer_, i), r, FALSE) EXCEPT !.own = i]

Plain == [threw |-> FALSE, failed |-> FALSE, ret |-> -1, reloc |-> 0, lost |-> 0]

\* A Vector whose slots [0, size) hold live objects and whose other slots hold
\* none.  Any use of one that is not touches a slot without an object or builds
\* over a live one (undefined behaviour): the model follows an object up to there.
WellFormed(h, v) ==
    \A i \in 0..(Capacity(v) - 1) : (At(h, v.data_.buffer_, i) # RAW) <=> (i < v.size_)
Usable(c) == vec[c].alive /\ WellFormed(heap, vec[c])

Taint(c) == [appended EXCEPT ![c] = Tainted]

Init ==
    /\ heap = [b \in Blocks |-> FreeBlock]
    /\ objects \in Vecs
    /\ vec = [c \in Vecs |-> IF c <= objects THEN DefaultVector ELSE NoVector]
    /\ nothrowMove \in BOOLEAN
    /\ appended = [c \in Vecs |-> <<>>]
    /\ last = Call("Init", 0, -1, -1, Plain, FALSE)

CallDefaultCtor(c) ==
    /\ ~vec[c].alive
    /\ vec' = [vec EXCEPT ![c] = DefaultVector]
    /\ appended' = [appended EXCEPT ![c] = <<>>]
    /\ last' = Call("Vector", c, -1, -1, Plain, FALSE)
    /\ UNCHANGED <<heap, nothrowMove, objects>>

CallSizedCtor(c, n, f) ==
    /\ ~vec[c].alive
    /\ CanAllocate(heap, n)
    /\ LET r == SizedCtor(heap, n, Budget(f))
       IN /\ heap' = r.heap
          /\ vec' = [vec EXCEPT ![c] = r.v]
          /\ last' = Call("VectorN", c, n, -1, r, FALSE)
    /\ appended' = Taint(c)
    /\ UNCHANGED <<nothrowMove, objects>>

CallCopyCtor(c, o, f) ==
    /\ ~vec[c].alive
    /\ Usable(o)
    /\ CanAllocate(heap, vec[o].size_)
    /\ LET r == CopyCtor(heap, vec[o], Budget(f))
       IN /\ heap' = r.heap
          /\ vec' = [vec EXCEPT ![c] = r.v]
          /\ last' = Call("VectorCopy", c, o, -1, r, FALSE)
    /\ appended' = Taint(c)
    /\ UNCHANGED <<nothrowMove, objects>>

CallMoveCtor(c, o) ==
    /\ ~vec[c].alive
    /\ Usable(o)
    /\ LET r == MoveCtor(vec[o])
       IN vec' = [vec EXCEPT ![c] = r.v, ![o] = r.other]
    /\ last' = Call("VectorMove", c, o, -1, Plain, FALSE)
    /\ appended' = [appended EXCEPT ![c] = Tainted, ![o] = Tainted]
    /\ UNCHANGED <<heap, nothrowMove, objects>>

CallDtor(c) ==
    /\ Usable(c)
    /\ heap' = Dtor(heap, vec[c])
    /\ vec' = [vec EXCEPT ![c] = NoVector]
    /\ last' = Call("~Vector", c, -1, -1, Plain, FALSE)
    /\ appended' = Taint(c)
    /\ UNCHANGED <<nothrowMove, objects>>

CallCopyAssign(c, o, f) ==
    /\ Usable(c)
    /\ Usable(o)
    /\ (c # o /\ vec[o].size_ > Capacity(vec[c])) => CanAllocate(heap, vec[o].size_)
    /\ LET r == CopyAssign(heap, vec[c], vec[o], c = o, Budget(f))
       IN /\ heap' = r.heap
          /\ vec' = [vec EXCEPT ![c] = r.v]
          /\ last' = Call("CopyAssign", c, o, -1, r, FALSE)
    /\ appended' = Taint(c)
    /\ UNCHANGED <<nothrowMove, objects>>

CallMoveAssign(c, o) ==
    /\ Usable(c)
    /\ Usable(o)
    /\ LET r == MoveAssign(vec[c], vec[o], c = o)
       IN /\ vec' = [vec EXCEPT ![o] = r.rhs, ![c] = r.v]
          /\ heap' = Orphan(heap, r.dropped)
          /\ last' = Call("MoveAssign", c, o, -1, Plain, r.dropped # NullPtr)
    /\ appended' = [appended EXCEPT ![c] = Tainted, ![o] = Tainted]
    /\ UNCHANGED <<nothrowMove, objects>>

CallSwap(c, o) ==
    /\ Usable(c)
    /\ Usable(o)
    /\ LET r == Swap(vec[c], vec[o], c = o)
       IN vec' = [vec EXCEPT ![o] = r.w, ![c] = r.v]
    /\ last' = Call("Swap", c, o, -1, Plain, FALSE)
    /\ appended' = [appended EXCEPT ![c] = Tainted, ![o] = Tainted]
    /\ UNCHANGED <<heap, nothrowMove, objects>>

CallReserve(c, n, f) ==
    /\ Usable(c)
    /\ n > Capacity(vec[c]) => CanAllocate(heap, n)
    /\ LET r == Reserve(heap, vec[c], n, Budget(f))
       IN /\ heap' = r.heap
          /\ vec' = [vec EXCEPT ![c] = r.v]
          /\ last' = Call("Reserve", c, n, -1, r, FALSE)
    /\ appended' = Taint(c)
    /\ UNCHANGED <<nothrowMove, objects>>

CallResize(c, n, f) ==
    /\ Usable(c)
    /\ n > Capacity(vec[c]) => CanAllocate(heap, n)
    /\ LET r == Resize(heap, vec[c], n, Budget(f))
       IN /\ heap' = r.heap
          /\ vec' = [vec EXCEPT ![c] = r.v]
          /\ last' = Call("Resize", c, n, -1, r, FALSE)
    /\ appended' = Taint(c)
    /\ UNCHANGED <<nothrowMove, objects>>

\* PushBack(const T& value): EmplaceBack(value).
CallPushBack(c, x, f) ==
    /\ Usable(c)
    /\ vec[c].size_ = Capacity(vec[c]) => CanAllocate(heap, GrownCapacity(vec[c]))
    /\ LET r == EmplaceBack(heap, vec[c], ByValue(x), Budget(f))
       IN /\ heap' = r.heap
          /\ vec' = [vec EXCEPT ![c] = r.v]
          /\ last' = Call("PushBack", c, -1, x, r, FALSE)
          /\ appended' = IF r.failed \/ appended[c] = Tainted THEN Taint(c)
                         ELSE [appended EXCEPT ![c] = Append(@, x)]
    /\ UNCHANGED <<nothrowMove, objects>>

\* v.PushBack(v[i]): the argument refers to an element of the Vector itself.
CallPushBackOwn(c, i, f) ==
    /\ Usable(c)
    /\ i < vec[c].size_
    /\ vec[c].size_ = Capacity(vec[c]) => CanAllocate(heap, GrownCapacity(vec[c]))
    /\ LET r == EmplaceBack(heap, vec[c], ByRef(i), Budget(f))
       IN /\ heap' = r.heap
          /\ vec' = [vec EXCEPT ![c] = r.v]
          /\ last' = CallOwn("PushBack", c, -1, i, r)
          /\ appended' = IF r.failed \/ appended[c] = Tainted THEN Taint(c)
                         ELSE [appended EXCEPT
                                 ![c] = Append(@, Read(heap, vec[c].data_.buffer_, i))]
    /\ UNCHANGED <<nothrowMove, objects>>

CallPopBack(c) ==
    /\ Usable(c)
    /\ LET r == PopBack(heap, vec[c])
       IN /\ heap' = r.heap
          /\ vec' = [vec EXCEPT ![c] = r.v]
          /\ last' = Call("PopBack", c, -1, -1, r, FALSE)
    /\ appended' = Taint(c)
    /\ UNCHANGED <<nothrowMove, objects>>

\* Insert(pos, const T& value): Emplace(pos, value), pos = begin() + index.
CallInsert(c, index, x, f) ==
    /\ Usable(c)
    /\ index <= vec[c].size_
    /\ vec[c].size_ = Capacity(vec[c]) => CanAllocate(heap, GrownCapacity(vec[c]))
    /\ LET r == Emplace(heap, vec[c], index, ByValue(x), Budget(f))
       IN /\ heap' = r.heap
          /\ vec' = [vec EXCEPT ![c] = r.v]
          /\ last' = Call("Insert", c, index, x, r, FALSE)
    /\ appended' = Taint(c)
    /\ UNCHANGED <<nothrowMove, objects>>

\* v.Insert(v.begin() + index, v[i]).
CallInsertOwn(c, index, i, f) ==
    /\ Usable(c)
    /\ index <= vec[c].size_
    /\ i < vec[c].size_
    /\ vec[c].size_ = Capacity(vec[c]) => CanAllocate(heap, GrownCapacity(vec[c]))
    /\ LET r == Emplace(heap, vec[c], index, ByRef(i), Budget(f))
       IN /\ heap' = r.heap
          /\ vec' = [vec EXCEPT ![c] = r.v]
          /\ last' = CallOwn("Insert", c, index, i, r)
    /\ appended' = Taint(c)
    /\ UNCHANGED <<nothrowMove, objects>>

\* Erase(pos), pos = begin() + index.
CallErase(c, index, f) ==
    /\ Usable(c)
    /\ index <= vec[c].size_
    /\ LET r == Erase(heap, vec[c], index, Budget(f))
       IN /\ heap' = r.heap
          /\ vec' = [vec EXCEPT ![c] = r.v]
          /\ last' = Call("Erase", c, index, -1, r, FALSE)
    /\ appended' = Taint(c)
    /\ UNCHANGED <<nothrowMove, objects>>

Next ==
    \/ \E c \in Objs : CallDefaultCtor(c)
    \/ \E c \in Objs, n \in 0..CapLimit : \E f \in FailPoints(n) : CallSizedCtor(c, n, f)
    \/ \E c \in Objs, o \in Objs : \E f \in FailPoints(vec[o].size_) : CallCopyCtor(c, o, f)
    \/ \E c \in Objs, o \in Objs : CallMoveCtor(c, o)
    \/ \E c \in Objs : CallDtor(c)
    \/ \E c \in Objs, o \in Objs : \E f \in FailPoints(vec[o].size_) : CallCopyAssign(c, o, f)
    \/ \E c \in Objs, o \in Objs : CallMoveAssign(c, o)
    \/ \E c \in Objs, o \in Objs : CallSwap(c, o)
    \/ \E c \in Objs, n \in 0..CapLimit : \E f \in FailPoints(vec[c].size_) : CallReserve(c, n, f)
    \/ \E c \in Objs, n \in 0..CapLimit : \E f \in FailPoints(n) : CallResize(c, n, f)
    \/ \E c \in Objs, x \in Values : \E f \in FailPoints(vec[c].size_ + 1) : CallPushBack(c, x, f)
    \/ \E c \in Objs : CallPopBack(c)
    \/ \E c \in Objs, index \in 0..CapLimit, x \in Values :
          \E f \in FailPoints(vec[c].size_ + 2) : CallInsert(c, index, x, f)
    \/ \E c \in Objs, index \in 0..CapLimit :
          \E f \in FailPoints(vec[c].size_) : CallErase(c, index, f)
    \/ \E c \in Objs, i \in 0..(CapLimit - 1) :
          \E f \in FailPoints(vec[c].size_ + 1) : CallPushBackOwn(c, i, f)
    \/ \E c \in Objs, index \in 0..CapLimit, i \in 0..(CapLimit - 1) :
          \E f \in FailPoints(vec[c].size_ + 2) : CallInsertOwn(c, index, i, f)

Spec == Init /\ [][Next]_vars

\* ------------------------------------------------------------ the claims
\* What a caller can observe of Vector c: Size(), Capacity(), the elements.
Observe(h, v) == [size |-> v.size_, capacity |-> Capacity(v), elems |-> Elems(h, v)]
\* s with x inserted before index p (0-based).
InsertAt(s, p, x) == SubSeq(s, 1, p) \o <<x>> \o SubSeq(s, p + 1, Len(s))
\* The smallest power of two >= n, searched from p.
RECURSIVE Pow2From(_, _)
Pow2From(p, n) == IF p >= n THEN p ELSE Pow2From(2 * p, n)
\* The blocks operator new handed out and operator delete has not got back.
Allocated(h) == {b \in Blocks : h[b].alloc}
\* The call that just ran was on Vector c.
Ran(op, c) == last'.op = op /\ last'.vec = c

\* C1: at the exit of every public operation, normal or by exception, every
\* Vector has size <= capacity (and the capacity is that of the block it holds).
C1_SizeWithinCapacity ==
    \A c \in Vecs : vec[c].alive =>
        /\ vec[c].size_ <= Capacity(vec[c])
        /\ vec[c].data_.buffer_ # NullPtr =>
              Capacity(vec[c]) = Len(heap[vec[c].data_.buffer_].mem)
        /\ vec[c].data_.buffer_ = NullPtr => Capacity(vec[c]) = 0

\* C1 witness: an operation has just exited by exception on a Vector that is full.
C1_Witness ==
    /\ last.threw
    /\ last.op = "PushBack"
    /\ vec[last.vec].size_ = Capacity(vec[last.vec])
    /\ vec[last.vec].size_ >= 2

\* C2: an Insert at pos != end() into a full Vector in which an element
\* operation fails (the relocation of the elements before or after the index)
\* propagates the failure, releases the new storage with nothing left in it,
\* and leaves size, capacity and elements as they were.
C2_InsertRelocationFailureRollsBack ==
    [][\A c \in Vecs :
          (/\ Ran("Insert", c)
           /\ last'.arg < vec[c].size_
           /\ vec[c].size_ = Capacity(vec[c])
           /\ last'.failed)
          => /\ last'.threw
             /\ Observe(heap', vec'[c]) = Observe(heap, vec[c])
             /\ Allocated(heap') = Allocated(heap)]_vars

\* C3: in every reachable state exactly the slots [0, size) of every Vector's
\* storage hold live objects.
C3_LiveExactlyBelowSize ==
    \A c \in Vecs : vec[c].alive => WellFormed(heap, vec[c])

\* C4: a copy assignment dst = src with src.size > dst.capacity in which an
\* element copy fails propagates the failure and leaves dst (size, capacity,
\* elements, storage) and src as they were.
C4_CopyAssignRebuildStrong ==
    [][\A c \in Vecs :
          (/\ Ran("CopyAssign", c)
           /\ last'.arg # c
           /\ vec[last'.arg].size_ > Capacity(vec[c])
           /\ last'.failed)
          => /\ last'.threw
             /\ vec' = vec
             /\ heap' = heap]_vars

\* C4 witness: such an assignment to a Vector that holds elements has just thrown.
C4_Witness ==
    /\ last.op = "CopyAssign"
    /\ last.threw
    /\ last.arg # last.vec
    /\ vec[last.arg].size_ > Capacity(vec[last.vec])
    /\ vec[last.vec].size_ >= 1

C6_NoStorageLeak ==
    /\ ~last.leak
    /\ \A b \in Allocated(heap) :
          Cardinality({c \in Vecs : vec[c].alive /\ vec[c].data_.buffer_ = b}) = 1

\* C7: Erase(end()) changes nothing (size, capacity, elements) and reports no
\* error, on an empty and on a non-empty Vector.
C7_EraseEndIsNoOp ==
    [][\A c \in Vecs :
          (Ran("Erase", c) /\ last'.arg = vec[c].size_)
          => /\ ~last'.threw
             /\ Observe(heap', vec'[c]) = Observe(heap, vec[c])]_vars

\* C8: after N >= 1 successful PushBacks on a default-constructed Vector and
\* nothing else, size = N, capacity is the smallest power of two >= N and the
\* elements are the appended values in order.
C8_AppendSchedule ==
    \A c \in Vecs :
        (vec[c].alive /\ appended[c] # Tainted /\ Len(appended[c]) >= 1) =>
            /\ vec[c].size_ = Len(appended[c])
            /\ Capacity(vec[c]) = Pow2From(1, Len(appended[c]))
            /\ Elems(heap, vec[c]) = appended[c]

\* C8 witness: three appends, of different values, have reached capacity 4.
C8_Witness ==
    \E c \in Vecs :
        /\ vec[c].alive
        /\ appended[c] # Tainted
        /\ Len(appended[c]) = 3
        /\ appended[c][1] # appended[c][2]
        /\ Capacity(vec[c]) = 4

\* C9: a move construction or move assignment from another Vector leaves the
\* source with size 0 and capacity 0 and the destination with the source's
\* block, capacity and elements, and touches no element.
C9_MoveTransfers ==
    [][\A c \in Vecs :
          ((Ran("VectorMove", c) \/ Ran("MoveAssign", c)) /\ last'.arg # c)
          => /\ vec'[last'.arg].size_ = 0
             /\ Capacity(vec'[last'.arg]) = 0
             /\ vec'[c].alive
             /\ Observe(heap', vec'[c]) = Observe(heap, vec[last'.arg])
             /\ vec'[c].data_.buffer_ = vec[last'.arg].data_.buffer_
             /\ \A b \in Blocks : b = vec'[c].data_.buffer_ => heap'[b] = heap[b]]_vars

\* C9 witness: a Vector holding elements has just been move-assigned two elements.
C9_Witness ==
    /\ last.op = "MoveAssign"
    /\ last.arg # last.vec
    /\ vec[last.vec].size_ = 2
    /\ vec[last.arg].size_ = 0

\* C10: an Insert of v at index p in which no element operation fails yields
\* s[0..p) ++ [v] ++ s[p..n), size n + 1 and the position p; the capacity (and
\* the block) is unchanged if n < capacity, and becomes max(1, 2n) if n = capacity.
C10_InsertPlacesValue ==
    [][\A c \in Vecs :
          (Ran("Insert", c) /\ ~last'.failed)
          => /\ ~last'.threw
             /\ Elems(heap', vec'[c]) = InsertAt(Elems(heap, vec[c]), last'.arg, last'.val)
             /\ vec'[c].size_ = vec[c].size_ + 1
             /\ last'.ret = last'.arg
             /\ vec[c].size_ < Capacity(vec[c]) => vec'[c].data_ = vec[c].data_
             /\ vec[c].size_ = Capacity(vec[c]) =>
                   Capacity(vec'[c]) = (IF 2 * vec[c].size_ > 1 THEN 2 * vec[c].size_ ELSE 1)]_vars

\* C10 witness: an Insert in the middle of a full Vector of two has succeeded.
C10_Witness ==
    /\ last.op = "Insert"
    /\ ~last.failed
    /\ last.arg = 1
    /\ vec[last.vec].size_ = 3
    /\ Capacity(vec[last.vec]) = 4
    /\ Elems(heap, vec[last.vec])[1] # Elems(heap, vec[last.vec])[3]

\* s without its element at index p (0-based).
RemoveAt(s, p) == SubSeq(s, 1, p) \o SubSeq(s, p + 2, Len(s))

\* C11: an Erase at index p < n in which no element operation fails yields
\* s[0..p) ++ s[p+1..n) with size n - 1, the same capacity and block, and
\* returns the position p.
C11_EraseRemovesElement ==
    [][\A c \in Vecs :
          (Ran("Erase", c) /\ last'.arg < vec[c].size_ /\ ~last'.failed)
          => /\ ~last'.threw
             /\ Elems(heap', vec'[c]) = RemoveAt(Elems(heap, vec[c]), last'.arg)
             /\ vec'[c].size_ = vec[c].size_ - 1
             /\ vec'[c].data_ = vec[c].data_
             /\ last'.ret = last'.arg]_vars

\* C11 witness: an Erase at the front of a Vector of three has left two
\* different elements.
C11_Witness ==
    /\ last.op = "Erase"
    /\ ~last.failed
    /\ last.arg = 0
    /\ last.ret = 0
    /\ vec[last.vec].size_ = 2
    /\ Elems(heap, vec[last.vec])[1] # Elems(heap, vec[last.vec])[2]

\* C12: a Reserve(k) in which no element operation fails yields, for
\* k > capacity, capacity exactly k with size and elements unchanged, and for
\* k <= capacity changes nothing (capacity, size, elements, block).
C12_ReserveExact ==
    [][\A c \in Vecs :
          (Ran("Reserve", c) /\ ~last'.failed)
          => /\ ~last'.threw
             /\ vec'[c].size_ = vec[c].size_
             /\ Elems(heap', vec'[c]) = Elems(heap, vec[c])
             /\ last'.arg > Capacity(vec[c]) =>
                   /\ Capacity(vec'[c]) = last'.arg
                   /\ Len(heap'[vec'[c].data_.buffer_].mem) = last'.arg
             /\ last'.arg <= Capacity(vec[c]) => (vec' = vec /\ heap' = heap)]_vars

\* C12 witness: a Reserve(3) has moved two different elements into a block of 3.
C12_Witness ==
    /\ last.op = "Reserve"
    /\ ~last.failed
    /\ last.arg = 3
    /\ last.reloc = 2
    /\ Capacity(vec[last.vec]) = 3
    /\ Elems(heap, vec[last.vec])[1] # Elems(heap, vec[last.vec])[2]

\* The calls that act on one Vector only, or read a second one (the copies).
OwnOps ==
    {"Vector", "VectorN", "VectorCopy", "~Vector", "CopyAssign", "Reserve", "Resize",
     "PushBack", "PopBack", "Insert", "Erase"}

\* C13: in every reachable state no two live Vectors hold the same block, and a
\* construction, copy, destruction or mutation of one Vector (successful or
\* failed) leaves every other Vector, its block and its elements as they were.
C13_StorageNeverShared ==
    /\ [](\A c \in Vecs, d \in Vecs :
            (c # d /\ vec[c].alive /\ vec[d].alive /\ vec[c].data_.buffer_ # NullPtr)
            => vec[c].data_.buffer_ # vec[d].data_.buffer_)
    /\ [][\A c \in Vecs, d \in Vecs :
            (last'.vec = c /\ last'.op \in OwnOps /\ d # c)
            => /\ vec'[d] = vec[d]
               /\ Observe(heap', vec'[d]) = Observe(heap, vec[d])
               /\ vec[d].data_.buffer_ # NullPtr =>
                     heap'[vec[d].data_.buffer_] = heap[vec[d].data_.buffer_]]_vars

\* C13 witness: an Insert has just changed a Vector with the same size and
\* capacity as another live Vector, whose block and two elements are its own.
C13_Witness ==
    /\ objects = 2
    /\ last.op = "Insert"
    /\ ~last.failed
    /\ \E d \in Vecs :
          /\ d # last.vec
          /\ vec[d].alive
          /\ vec[d].size_ = 2
          /\ vec[last.vec].size_ = 2
          /\ vec[d].data_.buffer_ # NullPtr
          /\ vec[last.vec].data_.buffer_ # NullPtr
          /\ vec[d].data_.buffer_ # vec[last.vec].data_.buffer_
          /\ Elems(heap, vec[d]) # Elems(heap, vec[last.vec])

\* The calls after which a Vector's capacity may not be smaller than before.
KeepOps == {"PushBack", "PopBack", "Insert", "Erase", "Reserve", "Resize", "CopyAssign"}

\* C14: a PushBack, PopBack, Insert, Erase, Reserve, Resize or copy assignment,
\* successful or failed, never leaves its Vector with a smaller capacity; the
\* capacity of a Vector that stays alive decreases only in a move construction,
\* move assignment or Swap it takes part in.
C14_CapacityNeverShrinks ==
    [][/\ \A c \in Vecs :
            (last'.vec = c /\ last'.op \in KeepOps)
            => Capacity(vec'[c]) >= Capacity(vec[c])
       /\ \A d \in Vecs :
            (vec[d].alive /\ vec'[d].alive /\ Capacity(vec'[d]) < Capacity(vec[d]))
            => /\ last'.op \in {"VectorMove", "MoveAssign", "Swap"}
               /\ d \in {last'.vec, last'.arg}]_vars

\* C14 witness: a Resize to a smaller size has left the capacity at 4.
C14_Witness ==
    /\ last.op = "Resize"
    /\ last.arg = 1
    /\ vec[last.vec].size_ = 1
    /\ Capacity(vec[last.vec]) = 4

\* C15: a copy assignment dst = src with src.size <= dst.capacity in which an
\* element assignment or a copy construction of the tail fails propagates the
\* failure and leaves dst's size, capacity and elements as they were.
C15_CopyAssignInPlaceStrong ==
    [][\A c \in Vecs :
          (/\ Ran("CopyAssign", c)
           /\ last'.arg # c
           /\ vec[last'.arg].size_ <= Capacity(vec[c])
           /\ last'.failed)
          => /\ last'.threw
             /\ Observe(heap', vec'[c]) = Observe(heap, vec[c])]_vars

\* C16: a growth (Reserve beyond the capacity, PushBack or Insert on a full
\* Vector) in which an element operation fails releases no block that still
\* holds a live object: what was built in the new storage, the new element
\* included, is destroyed first.
C16_GrowthFailureDestroysNewStorage ==
    [][\A c \in Vecs :
          (/\ \/ Ran("Reserve", c) /\ last'.arg > Capacity(vec[c])
              \/ Ran("PushBack", c) /\ vec[c].size_ = Capacity(vec[c])
              \/ Ran("Insert", c) /\ vec[c].size_ = Capacity(vec[c])
           /\ last'.failed)
          => last'.lost = 0]_vars

\* C17: in calls in which no element operation fails, an Insert at index p into
\* n elements relocates n - p existing elements with spare capacity and n
\* without, a Reserve beyond the capacity relocates size elements, and a
\* PushBack with spare capacity relocates none.
C17_RelocationCounts ==
    [][\A c \in Vecs :
          /\ (Ran("Insert", c) /\ ~last'.failed) =>
                last'.reloc = (IF vec[c].size_ < Capacity(vec[c])
                               THEN vec[c].size_ - last'.arg ELSE vec[c].size_)
          /\ (Ran("Reserve", c) /\ ~last'.failed /\ last'.arg > Capacity(vec[c])) =>
                last'.reloc = vec[c].size_
          /\ (Ran("PushBack", c) /\ ~last'.failed /\ vec[c].size_ < Capacity(vec[c])) =>
                last'.reloc = 0]_vars

\* C17 witness: an Insert at index 1 of three elements, with spare capacity,
\* has relocated two.
C17_Witness ==
    /\ last.op = "Insert"
    /\ ~last.failed
    /\ last.arg = 1
    /\ last.reloc = 2
    /\ vec[last.vec].size_ = 4
    /\ Capacity(vec[last.vec]) = 4

\* C18: a copy assignment dst = src in which no element operation fails leaves
\* dst with src's size and elements, src unchanged, and dst's capacity equal
\* to src.size if that exceeded it and unchanged (with its block) otherwise;
\* a self-assignment changes nothing.
C18_CopyAssignResult ==
    [][\A c \in Vecs :
          (Ran("CopyAssign", c) /\ ~last'.failed)
          => /\ ~last'.threw
             /\ vec'[c].size_ = vec[last'.arg].size_
             /\ Elems(heap', vec'[c]) = Elems(heap, vec[last'.arg])
             /\ last'.arg # c =>
                   /\ vec'[last'.arg] = vec[last'.arg]
                   /\ Observe(heap', vec'[last'.arg]) = Observe(heap, vec[last'.arg])
             /\ vec[last'.arg].size_ > Capacity(vec[c]) =>
                   Capacity(vec'[c]) = vec[last'.arg].size_
             /\ vec[last'.arg].size_ <= Capacity(vec[c]) => vec'[c].data_ = vec[c].data_
             /\ last'.arg = c => (vec' = vec /\ heap' = heap)]_vars

\* C18 witness: a copy assignment has given a Vector the two different
\* elements of another, in a block of its own.
C18_Witness ==
    /\ last.op = "CopyAssign"
    /\ ~last.failed
    /\ last.arg # last.vec
    /\ vec[last.vec].size_ = 2
    /\ Elems(heap, vec[last.vec]) = Elems(heap, vec[last.arg])
    /\ Elems(heap, vec[last.vec])[1] # Elems(heap, vec[last.vec])[2]
    /\ vec[last.vec].data_.buffer_ # vec[last.arg].data_.buffer_

\* C19: a PushBack(v[i]) or Insert(pos, v[i]) in which no element operation
\* fails inserts the value the element i had before the call, with spare
\* capacity and without, and leaves the other elements in their order.
C19_OwnElementArgument ==
    [][\A c \in Vecs :
          (last'.vec = c /\ last'.own >= 0 /\ ~last'.failed)
          => LET old == Elems(heap, vec[c])
                 p == IF last'.op = "PushBack" THEN vec[c].size_ ELSE last'.arg
             IN /\ ~last'.threw
                /\ last'.val = old[last'.own + 1]
                /\ Elems(heap', vec'[c]) = InsertAt(old, p, old[last'.own + 1])]_vars

\* C19 witness: an Insert at index 0, with spare capacity, of the element 1 of
\* the Vector itself, which differed from element 0, has succeeded.
C19_Witness ==
    /\ last.op = "Insert"
    /\ last.own = 1
    /\ last.arg = 0
    /\ ~last.failed
    /\ last.reloc = 2
    /\ vec[last.vec].size_ = 3
    /\ Capacity(vec[last.vec]) = 4
    /\ Elems(heap, vec[last.vec])[1] # Elems(heap, vec[last.vec])[2]

====
